---------------------------- MODULE Spec2Model ----------------------------
(***************************************************************************)
(* Model of domain_filter.py: the load -> classify -> score -> select ->   *)
(* export pipeline of main(), and its pure helpers.                        *)
(*                                                                         *)
(* Text is modelled as sequences of one-character strings, so that         *)
(* lower(), strip(), "in", startswith() and endswith() are computed and    *)
(* not assumed.  Industry names, menu items and messages are only ever     *)
(* compared for equality and stay TLA+ strings.                            *)
(*                                                                         *)
(* Numbers: match qualities are kept in tenths (1.0 -> 10, 0.7 -> 7) and   *)
(* combined scores in hundredths (100.00 -> 10000).  The score is computed *)
(* in exact rational arithmetic and rounded half-to-even, which is what    *)
(* round(x, 2) does to the exact value; the few-ulp error of the binary    *)
(* floating point sum is not modelled.  The IT ratio is a binary float,    *)
(* i.e. a dyadic rational k / 2^m, for which total_count * it_percentage   *)
(* is exact at the sizes modelled.                                         *)
(***************************************************************************)
EXTENDS Integers, Sequences, FiniteSets, TLC

VARIABLES pc, config, excluded_domains, rows_read, all_domains, seen_domains,
          excluded_count, it_domains, other_domains, selected_domains,
          csv_rows, messages, domain_name, matched,
          clean_load  \* history: the load of the rows read so far that do not raise

vars == <<pc, config, excluded_domains, rows_read, all_domains, seen_domains,
          excluded_count, it_domains, other_domains, selected_domains,
          csv_rows, messages, domain_name, matched, clean_load>>

(***************************************************************************)
(* Bounds of the model.                                                    *)
(***************************************************************************)
MaxRows == 3        \* rows read from the input files in one run
MaxCount == 2       \* largest requested domain_count in a full run
RatioBits == 1      \* it_percentage ranges over k / 2^RatioBits
MaxPieces == 3      \* pieces concatenated into a name given to match_industry
MaxBucket == 3      \* records per bucket given to select_top_domains alone
MaxSelectCount == 4 \* largest total_count given to select_top_domains alone
MaxScoreLevel == 3  \* distinct score levels in those buckets
SelectRatioBits == 2 \* it_percentage given to it ranges over k / 2^SelectRatioBits
MaxMenuRows == 2    \* records given to generate_analysis_csv alone

(***************************************************************************)
(* Program constants.                                                      *)
(***************************************************************************)
CURRENT_YEAR == 2025

None == "None"

INDUSTRY_KEYWORDS ==
  <<
    [industry |-> "IT / Software",
     keywords |-> <<
        <<"t","e","c","h">>,
        <<"s","o","f","t","w","a","r","e">>,
        <<"d","i","g","i","t","a","l">>,
        <<"c","l","o","u","d">>,
        <<"w","e","b">>,
        <<"s","y","s","t","e","m">>,
        <<"d","e","v">>,
        <<"a","p","p">>,
        <<"p","l","a","t","f","o","r","m">>,
        <<"c","o","d","e">>,
        <<"a","p","i">>,
        <<"s","a","a","s">>,
        <<"s","o","l","u","t","i","o","n">>,
        <<"c","y","b","e","r">>,
        <<"d","a","t","a">>,
        <<"n","e","t">>,
        <<"h","o","s","t">>,
        <<"s","e","r","v","e","r">>,
        <<"o","n","l","i","n","e">>,
        <<"s","i","t","e">>,
        <<"m","e","d","i","a">> >>],
    [industry |-> "Manufacturing",
     keywords |-> <<
        <<"m","a","n","u","f","a","c","t","u","r","e">>,
        <<"f","a","c","t","o","r","y">>,
        <<"p","r","o","d","u","c","t","i","o","n">>,
        <<"i","n","d","u","s","t","r","i","a","l">>,
        <<"m","a","c","h","i","n","e","r","y">>,
        <<"a","s","s","e","m","b","l","y">>,
        <<"p","l","a","n","t">>,
        <<"f","a","b","r","i","c","a","t","i","o","n">>,
        <<"a","u","t","o","m","a","t","i","o","n">> >>],
    [industry |-> "Healthcare",
     keywords |-> <<
        <<"h","e","a","l","t","h">>,
        <<"c","a","r","e">>,
        <<"m","e","d","i","c","a","l">>,
        <<"c","l","i","n","i","c">>,
        <<"p","h","a","r","m","a">>,
        <<"b","i","o">>,
        <<"m","e","d">>,
        <<"h","o","s","p","i","t","a","l">>,
        <<"t","h","e","r","a","p","y">>,
        <<"w","e","l","l","n","e","s","s">>,
        <<"d","i","a","g","n","o","s","t","i","c">>,
        <<"p","a","t","i","e","n","t">>,
        <<"d","o","c","t","o","r">> >>],
    [industry |-> "Engineering",
     keywords |-> <<
        <<"e","n","g","i","n","e","e","r">>,
        <<"m","e","c","h","a","n","i","c","a","l">>,
        <<"c","i","v","i","l">>,
        <<"d","e","s","i","g","n">>,
        <<"r","d">>,
        <<"c","a","d">>,
        <<"c","o","n","s","t","r","u","c","t","i","o","n">>,
        <<"s","t","r","u","c","t","u","r","a","l">>,
        <<"t","e","c","h","n","i","c","a","l">>,
        <<"c","o","n","s","u","l","t">>,
        <<"a","r","c","h","i","t","e","c","t">> >>],
    [industry |-> "HR / Recruitment",
     keywords |-> <<
        <<"h","r">>,
        <<"j","o","b">>,
        <<"r","e","c","r","u","i","t">>,
        <<"t","a","l","e","n","t">>,
        <<"s","t","a","f","f">>,
        <<"c","a","r","e","e","r">>,
        <<"h","i","r","e">>,
        <<"e","m","p","l","o","y","m","e","n","t">>,
        <<"w","o","r","k","f","o","r","c","e">>,
        <<"p","e","r","s","o","n","n","e","l">>,
        <<"r","e","s","u","m","e">> >>],
    [industry |-> "Analytics",
     keywords |-> <<
        <<"a","n","a","l","y","t","i","c","s">>,
        <<"i","n","s","i","g","h","t">>,
        <<"m","e","t","r","i","c","s">>,
        <<"i","n","t","e","l","l","i","g","e","n","c","e">>,
        <<"d","a","s","h","b","o","a","r","d">>,
        <<"r","e","p","o","r","t">>,
        <<"v","i","s","u","a","l","i","z","a","t","i","o","n">>,
        <<"m","l">>,
        <<"a","l","g","o","r","i","t","h","m">> >>],
    [industry |-> "Cybersecurity",
     keywords |-> <<
        <<"s","e","c","u","r","e">>,
        <<"s","h","i","e","l","d">>,
        <<"p","r","o","t","e","c","t">>,
        <<"d","e","f","e","n","s","e">>,
        <<"s","e","c","u","r","i","t","y">>,
        <<"f","i","r","e","w","a","l","l">>,
        <<"e","n","c","r","y","p","t","i","o","n">>,
        <<"a","u","d","i","t">>,
        <<"c","o","m","p","l","i","a","n","c","e">>,
        <<"r","i","s","k">> >>],
    [industry |-> "Wellness / Education Tech",
     keywords |-> <<
        <<"w","e","l","l","n","e","s","s">>,
        <<"e","d","u">>,
        <<"l","e","a","r","n">>,
        <<"s","c","h","o","o","l">>,
        <<"f","i","t","n","e","s","s">>,
        <<"t","r","a","i","n","i","n","g">>,
        <<"c","o","u","r","s","e">>,
        <<"a","c","a","d","e","m","y">>,
        <<"t","e","a","c","h","i","n","g">>,
        <<"s","t","u","d","e","n","t">>,
        <<"n","u","t","r","i","t","i","o","n">>,
        <<"y","o","g","a">> >>]
  >>

KNOWN_TLDS ==
  << <<"c","o","m">>,
     <<"n","e","t">>,
     <<"o","r","g">>,
     <<"i","n","f","o">>,
     <<"b","i","z">>,
     <<"c","o">>,
     <<"i","o">>,
     <<"a","i">>,
     <<"t","e","c","h">>,
     <<"c","c">>,
     <<"t","v">>,
     <<"u","s">>,
     <<"w","s">> >>

(***************************************************************************)
(* str methods used by the program, on sequences of characters.            *)
(***************************************************************************)
UPPERCASE == <<"A","B","C","D","E","F","G","H","I","J","K","L","M","N","O","P","Q","R","S","T","U","V","W","X","Y","Z">>

LOWERCASE == <<"a","b","c","d","e","f","g","h","i","j","k","l","m","n","o","p","q","r","s","t","u","v","w","x","y","z">>

lower_char(c) ==
  IF \E i \in 1..Len(UPPERCASE) : UPPERCASE[i] = c
  THEN LOWERCASE[CHOOSE i \in 1..Len(UPPERCASE) : UPPERCASE[i] = c]
  ELSE c

lower(s) == [i \in 1..Len(s) |-> lower_char(s[i])]

RECURSIVE strip(_)
strip(s) ==
  IF s = <<>> THEN s
  ELSE IF Head(s) = " " THEN strip(Tail(s))
  ELSE IF s[Len(s)] = " " THEN strip(SubSeq(s, 1, Len(s) - 1))
  ELSE s

startswith(s, prefix) ==
  Len(prefix) <= Len(s) /\ SubSeq(s, 1, Len(prefix)) = prefix

endswith(s, suffix) ==
  Len(suffix) <= Len(s) /\ SubSeq(s, Len(s) - Len(suffix) + 1, Len(s)) = suffix

\* Python's  sub in s
contains(sub, s) ==
  \E i \in 0..(Len(s) - Len(sub)) : SubSeq(s, i + 1, i + Len(sub)) = sub

is_lower_alpha(s) ==
  s # <<>> /\ \A i \in 1..Len(s) : \E j \in 1..Len(LOWERCASE) : LOWERCASE[j] = s[i]

\* position of the last "." of s, 0 when there is none
last_dot(s) ==
  IF \E i \in 1..Len(s) : s[i] = "."
  THEN CHOOSE i \in 1..Len(s) : s[i] = "." /\ \A j \in (i + 1)..Len(s) : s[j] # "."
  ELSE 0

(***************************************************************************)
(* clean_domain: lower, strip, then re.sub of a trailing "." + known TLD.  *)
(***************************************************************************)
clean_domain(domain) ==
  LET d == strip(lower(domain))
      k == last_dot(d)
      tail == SubSeq(d, k + 1, Len(d))
  IN IF k > 0 /\ \E t \in 1..Len(KNOWN_TLDS) : KNOWN_TLDS[t] = tail
     THEN SubSeq(d, 1, k - 1)
     ELSE d

(***************************************************************************)
(* get_tld: re.search(r'\.([a-z]+)$') on the lowercased domain, ".com"     *)
(* when nothing matches.                                                   *)
(***************************************************************************)
get_tld(domain) ==
  LET d == lower(domain)
      k == last_dot(d)
      tail == SubSeq(d, k + 1, Len(d))
  IN IF k > 0 /\ is_lower_alpha(tail)
     THEN <<".">> \o tail
     ELSE <<".", "c", "o", "m">>

(***************************************************************************)
(* match_industry: the double loop over INDUSTRY_KEYWORDS in table order;  *)
(* a pair replaces the best one only when its score is strictly greater.   *)
(***************************************************************************)
keyword_score(name, keyword) ==
  IF name = keyword \/ startswith(name, keyword) \/ endswith(name, keyword)
  THEN 10
  ELSE 7

is_better_last_wins(score, best_score) == score >= best_score

is_better(score, best_score) == score > best_score

\* the inner loop: keywords j.. of industry i
RECURSIVE match_keywords_from(_, _, _, _)
match_keywords_from(name, i, j, best) ==
  IF j > Len(INDUSTRY_KEYWORDS[i].keywords) THEN best
  ELSE LET keyword == INDUSTRY_KEYWORDS[i].keywords[j]
           score == keyword_score(name, keyword)
       IN IF is_better(score, best.score) /\ contains(keyword, name)
          THEN match_keywords_from(name, i, j + 1,
                 [industry |-> INDUSTRY_KEYWORDS[i].industry, score |-> score])
          ELSE match_keywords_from(name, i, j + 1, best)

\* the outer loop: industries i..
RECURSIVE match_industry_from(_, _, _)
match_industry_from(name, i, best) ==
  IF i > Len(INDUSTRY_KEYWORDS) THEN best
  ELSE match_industry_from(name, i + 1, match_keywords_from(name, i, 1, best))

match_industry(name) ==
  match_industry_from(name, 1, [industry |-> None, score |-> 0])

(***************************************************************************)
(* calculate_combined_score.  The result is in hundredths.  With           *)
(*   q = quality / 10, a, b, t the three capped ratios and f = (tf+cf)/100 *)
(* the source computes (0.25 q + 0.20 a + 0.20 f + 0.20 b + 0.15 t) * 100, *)
(* multiplies by the TLD bonus (1.0 or 0.85, here 20/20 or 17/20) and the  *)
(* health bonus (1.0 or 0.9, here 10/10 or 9/10), caps at 100 and rounds   *)
(* to two decimals.  Ratios are <<numerator, denominator>> in lowest terms.*)
(***************************************************************************)
abs(x) == IF x < 0 THEN 0 - x ELSE x

RECURSIVE gcd(_, _)
gcd(a, b) == IF b = 0 THEN a ELSE gcd(b, a % b)

\* min(x / max_x, 1.0) for max_x > 0
min_ratio_one(x, max_x) ==
  IF x >= max_x THEN <<1, 1>>
  ELSE IF x = 0 THEN <<0, 1>>
  ELSE LET g == gcd(abs(x), max_x) IN <<x \div g, max_x \div g>>

max_of(a, b) == IF a >= b THEN a ELSE b

\* round(n / d) to the nearest integer, ties to even; d > 0
round_half_even(n, d) ==
  LET fl == n \div d
      rem == n % d
  IN IF 2 * rem < d THEN fl
     ELSE IF 2 * rem > d THEN fl + 1
     ELSE IF fl % 2 = 0 THEN fl ELSE fl + 1

calculate_combined_score(domain_data, max_age, max_backlinks, max_traffic) ==
  LET age_score == IF max_age > 0
                   THEN min_ratio_one(domain_data.age, max_age)
                   ELSE <<0, 1>>
      tf_cf == domain_data.tf + domain_data.cf
      backlink_total == domain_data.backlinks + domain_data.referring_domains
      backlink_score == IF max_backlinks > 0
                        THEN min_ratio_one(backlink_total, max_of(max_backlinks, 1))
                        ELSE <<0, 1>>
      traffic_score == IF max_traffic > 0
                       THEN min_ratio_one(domain_data.traffic, max_of(max_traffic, 1))
                       ELSE <<0, 1>>
      ad == age_score[2]
      bd == backlink_score[2]
      td == traffic_score[2]
      \* combined_score before the bonuses, as num / (100 * ad * bd * td)
      num == 250 * domain_data.industry_match_quality * ad * bd * td
             + 2000 * age_score[1] * bd * td
             + 20 * tf_cf * ad * bd * td
             + 2000 * backlink_score[1] * ad * td
             + 1500 * traffic_score[1] * ad * bd
      den == 100 * ad * bd * td
      tld_bonus == IF domain_data.tld = <<".", "c", "o", "m">> THEN 20 ELSE 17
      healthy == IF domain_data.cf > 0
                 THEN 10 * domain_data.tf >= 7 * max_of(domain_data.cf, 1)
                 ELSE TRUE
      health_bonus == IF healthy THEN 10 ELSE 9
      \* combined_score after the bonuses, as bonus_num / (200 * den)
      bonus_num == num * tld_bonus * health_bonus
      \* min(combined_score, 100)
      capped_num == IF bonus_num >= 100 * 200 * den THEN 100 * 200 * den ELSE bonus_num
  IN round_half_even(capped_num, 2 * den)

(***************************************************************************)
(* list.sort(key = combined_score, reverse = True): stable, so records     *)
(* with equal scores keep their order.                                     *)
(***************************************************************************)
insert_before_ties(sorted, x) ==
  LET k == Cardinality({i \in 1..Len(sorted) : sorted[i].combined_score > x.combined_score})
  IN SubSeq(sorted, 1, k) \o <<x>> \o SubSeq(sorted, k + 1, Len(sorted))

insert_by_score(sorted, x) ==
  LET k == Cardinality({i \in 1..Len(sorted) : sorted[i].combined_score >= x.combined_score})
  IN SubSeq(sorted, 1, k) \o <<x>> \o SubSeq(sorted, k + 1, Len(sorted))

RECURSIVE sort_from(_, _)
sort_from(sorted, rest) ==
  IF rest = <<>> THEN sorted
  ELSE sort_from(insert_by_score(sorted, Head(rest)), Tail(rest))

sort_by_score(s) == sort_from(<<>>, s)

\* Python's s[a:b] for 0 <= a, 0 <= b
slice(s, a, b) == SubSeq(s, a + 1, IF b < Len(s) THEN b ELSE Len(s))

(***************************************************************************)
(* CSV cells.  A numeric cell holds the text of an integer, is empty, or   *)
(* holds text that int() / float() rejects.                                *)
(***************************************************************************)
int_cell(n) == [kind |-> "int", val |-> n]

empty_cell == [kind |-> "empty", val |-> 0]

bad_cell == [kind |-> "bad", val |-> 0]

\* int(row[c]) if row[c] else 0
parse_cell(cell) == IF cell.kind = "int" THEN cell.val ELSE 0

NUMERIC_COLUMNS ==
  {"price", "age", "tf", "cf", "traffic", "backlinks", "referring_domains"}

\* the dict literal of load_csv_files raises ValueError or KeyError
row_raises(row) ==
  row.missing # "none" \/ \E c \in NUMERIC_COLUMNS : row[c].kind = "bad"

(***************************************************************************)
(* load_excluded_domains.  A file is a sequence of rows; a row whose       *)
(* 'Domain Name' cell cannot be read raises, and the except clause returns *)
(* the set built so far.                                                   *)
(***************************************************************************)
RECURSIVE read_excluded(_, _)
read_excluded(file_rows, excluded) ==
  IF file_rows = <<>> THEN excluded
  ELSE IF ~Head(file_rows).readable THEN excluded
  ELSE read_excluded(Tail(file_rows),
                     excluded \cup {lower(strip(Head(file_rows).domain))})

load_excluded_domains(filepath) ==
  IF ~filepath.exists THEN {} ELSE read_excluded(filepath.rows, {})

(***************************************************************************)
(* load_csv_files: the body of the row loop.                               *)
(***************************************************************************)
already_seen_case_sensitive(domain_name_raw, seen) == domain_name_raw \in seen

already_seen(domain_name_raw, seen) == lower(domain_name_raw) \in seen

is_excluded_case_sensitive(domain_name_raw, excluded) == domain_name_raw \in excluded

is_excluded(domain_name_raw, excluded) == lower(domain_name_raw) \in excluded

new_domain_data(domain_name_raw, row) ==
  [domain |-> domain_name_raw,
   price |-> parse_cell(row.price),
   age |-> parse_cell(row.age),
   tf |-> parse_cell(row.tf),
   cf |-> parse_cell(row.cf),
   traffic |-> parse_cell(row.traffic),
   backlinks |-> parse_cell(row.backlinks),
   referring_domains |-> parse_cell(row.referring_domains)]

\* state is [all_domains, seen_domains, excluded_count]
process_row(row, state, excluded) ==
  IF row.missing = "Domain Name" THEN state
  ELSE LET domain_name_raw == strip(row.domain)
       IN IF already_seen(domain_name_raw, state.seen_domains) THEN state
          ELSE IF is_excluded(domain_name_raw, excluded)
          THEN [state EXCEPT !.excluded_count = @ + 1]
          ELSE IF row_raises(row)
          THEN [state EXCEPT !.seen_domains = @ \cup {lower(domain_name_raw)}]
          ELSE [state EXCEPT
                  !.seen_domains = @ \cup {lower(domain_name_raw)},
                  !.all_domains = Append(@, new_domain_data(domain_name_raw, row))]

(***************************************************************************)
(* Inputs of a run: the rows the CSV reader can yield, the exclusion files *)
(* and the answers given to get_user_inputs.                               *)
(***************************************************************************)
metrics(price, age, tf, cf, traffic, backlinks, referring_domains) ==
  [price |-> price, age |-> age, tf |-> tf, cf |-> cf, traffic |-> traffic,
   backlinks |-> backlinks, referring_domains |-> referring_domains]

TYPICAL == metrics(int_cell(500), int_cell(10), int_cell(15), int_cell(10),
                   int_cell(25), int_cell(50), int_cell(10))

BLANK == metrics(empty_cell, empty_cell, empty_cell, empty_cell,
                 empty_cell, empty_cell, empty_cell)

NEGATIVE_TF == metrics(int_cell(1500), int_cell(20), int_cell(0 - 500), int_cell(10),
                       int_cell(100), int_cell(150), int_cell(50))

HUGE_FLOW == metrics(int_cell(100), int_cell(10), int_cell(200), int_cell(200),
                     int_cell(25), int_cell(50), int_cell(10))

BAD_AGE == metrics(int_cell(500), bad_cell, int_cell(15), int_cell(10),
                   int_cell(25), int_cell(50), int_cell(10))

input_row(domain, missing, m) ==
  [domain |-> domain, missing |-> missing, price |-> m.price, age |-> m.age,
   tf |-> m.tf, cf |-> m.cf, traffic |-> m.traffic, backlinks |-> m.backlinks,
   referring_domains |-> m.referring_domains]

InputRows ==
  { input_row(<<"t", "e", "c", "h", ".", "c", "o", "m">>, "none", TYPICAL),
    input_row(<<" ", "T", "e", "c", "h", ".", "C", "O", "M", " ">>, "none", HUGE_FLOW),
    input_row(<<"c", "a", "r", "e", ".", "n", "e", "t">>, "none", BLANK),
    input_row(<<"C", "a", "r", "e", ".", "n", "e", "t">>, "none", BAD_AGE),
    input_row(<<"h", "o", "r", "i", "z", "o", "n", "h", "e", "a", "l", "t", "h", "c", "a", "r", "e", ".", "c", "o", "m">>, "none", TYPICAL),
    input_row(<<"w", "e", "b", ".", "o", "r", "g">>, "none", TYPICAL),
    input_row(<<"x", "y", "z", ".", "i", "o">>, "none", TYPICAL),
    input_row(<<"h", "r", ".", "i", "o">>, "none", NEGATIVE_TF),
    input_row(<<"j", "o", "b", ".", "c", "o", "m">>, "Domain Name", TYPICAL) }

excluded_row(domain, readable) == [domain |-> domain, readable |-> readable]

NO_FILE == [exists |-> FALSE, rows |-> <<>>]

ExcludeFiles ==
  { NO_FILE,
    [exists |-> TRUE,
     rows |-> << excluded_row(<<" ", "T", "E", "C", "H", ".", "c", "o", "m">>, TRUE),
                 excluded_row(<<"C", "a", "r", "e", ".", "N", "E", "T">>, TRUE),
                 excluded_row(<<>>, FALSE),
                 excluded_row(<<"h", "r", ".", "i", "o">>, TRUE) >>] }

KnownDomains == {strip(r.domain) : r \in InputRows}

(***************************************************************************)
(* filter_and_score_domains.                                               *)
(***************************************************************************)
IT_SOFTWARE == "IT / Software"

HORIZON == <<"h", "o", "r", "i", "z", "o", "n">>

DOT_ORG == <<".", "o", "r", "g">>

\* clean_domain, get_tld and match_industry of a domain, as the loop computes them
classification_of(domain) ==
  LET name == clean_domain(domain)
  IN [domain_name_clean |-> name, tld |-> get_tld(domain), match |-> match_industry(name)]

\* classification_of, tabulated once for the domain texts the inputs hold
CLASSIFICATION_TABLE == [d \in KnownDomains |-> classification_of(d)]

classification(domain) ==
  IF domain \in KnownDomains THEN CLASSIFICATION_TABLE[domain]
  ELSE classification_of(domain)

\* the fields added to a record whose name matched an industry
classify(domain_data) ==
  LET c == classification(domain_data.domain)
  IN [domain |-> domain_data.domain,
      price |-> domain_data.price,
      age |-> domain_data.age,
      tf |-> domain_data.tf,
      cf |-> domain_data.cf,
      traffic |-> domain_data.traffic,
      backlinks |-> domain_data.backlinks,
      referring_domains |-> domain_data.referring_domains,
      domain_name_clean |-> c.domain_name_clean,
      tld |-> c.tld,
      industry |-> c.match.industry,
      industry_match_quality |-> c.match.score,
      register_date |-> CURRENT_YEAR - domain_data.age]

has_industry(domain_data) ==
  classification(domain_data.domain).match.industry # None

is_denied_org_only(classified) == classified.tld = DOT_ORG

is_denied(classified) ==
  classified.tld = DOT_ORG \/ contains(HORIZON, classified.domain_name_clean)

with_score(classified, max_age, max_backlinks, max_traffic) ==
  [domain |-> classified.domain,
   price |-> classified.price,
   age |-> classified.age,
   tf |-> classified.tf,
   cf |-> classified.cf,
   traffic |-> classified.traffic,
   backlinks |-> classified.backlinks,
   referring_domains |-> classified.referring_domains,
   domain_name_clean |-> classified.domain_name_clean,
   tld |-> classified.tld,
   industry |-> classified.industry,
   industry_match_quality |-> classified.industry_match_quality,
   register_date |-> classified.register_date,
   combined_score |->
     calculate_combined_score(classified, max_age, max_backlinks, max_traffic)]

set_max(S) == CHOOSE x \in S : \A y \in S : y <= x

\* the loop of lines 283-307: the classified records that are not denied
classify_all(with_industry) ==
  [i \in 1..Len(with_industry) |-> classify(with_industry[i])]

drop_denied(matched_all) == SelectSeq(matched_all, LAMBDA d : ~is_denied(d))

max_age_of(all_matched) ==
  set_max({all_matched[i].age : i \in 1..Len(all_matched)})

max_backlinks_of(all_matched) ==
  set_max({all_matched[i].backlinks + all_matched[i].referring_domains
           : i \in 1..Len(all_matched)})

max_traffic_of(all_matched) ==
  set_max({all_matched[i].traffic : i \in 1..Len(all_matched)})

score_all(bucket, max_age, max_backlinks, max_traffic) ==
  [i \in 1..Len(bucket) |-> with_score(bucket[i], max_age, max_backlinks, max_traffic)]

score_and_sort(bucket, all_matched) ==
  sort_by_score(score_all(bucket, max_age_of(all_matched),
                          max_backlinks_of(all_matched), max_traffic_of(all_matched)))

score_buckets(it_unscored, other_unscored) ==
  IF it_unscored \o other_unscored = <<>>
  THEN [it_domains |-> <<>>, other_domains |-> <<>>]
  ELSE [it_domains |-> score_and_sort(it_unscored, it_unscored \o other_unscored),
        other_domains |-> score_and_sort(other_unscored, it_unscored \o other_unscored)]

split_and_score(kept) ==
  score_buckets(SelectSeq(kept, LAMBDA d : d.industry = IT_SOFTWARE),
                SelectSeq(kept, LAMBDA d : d.industry # IT_SOFTWARE))

filter_and_score_domains(domains) ==
  split_and_score(drop_denied(classify_all(SelectSeq(domains, has_industry))))

(***************************************************************************)
(* select_top_domains.  it_percentage is <<numerator, denominator>>.       *)
(***************************************************************************)
it_count_rounded_up(total_count, it_percentage) ==
  (total_count * it_percentage[1] + it_percentage[2] - 1) \div it_percentage[2]

it_count_of(total_count, it_percentage) ==
  (total_count * it_percentage[1]) \div it_percentage[2]

select_top_domains_no_gap_fill(it, other, total_count, it_percentage) ==
  LET it_count == it_count_of(total_count, it_percentage)
      other_count == total_count - it_count
  IN sort_by_score(slice(it, 0, it_count) \o slice(other, 0, other_count))

select_top_domains_whole_gap_only(it, other, total_count, it_percentage) ==
  LET it_count == it_count_of(total_count, it_percentage)
      other_count == total_count - it_count
      selected_it == slice(it, 0, it_count)
      selected_other == slice(other, 0, other_count)
      it_gap == it_count - Len(selected_it)
      other_gap == other_count - Len(selected_other)
      extra_other == IF it_gap > 0 /\ Len(other) >= other_count + it_gap
                     THEN slice(other, other_count, other_count + it_gap)
                     ELSE <<>>
      extra_it == IF other_gap > 0 /\ Len(it) >= it_count + other_gap
                  THEN slice(it, it_count, it_count + other_gap)
                  ELSE <<>>
      all_selected == (selected_it \o extra_it) \o (selected_other \o extra_other)
  IN sort_by_score(all_selected)

select_top_domains_gap_fill_from_end(it, other, total_count, it_percentage) ==
  LET it_count == it_count_of(total_count, it_percentage)
      other_count == total_count - it_count
      selected_it == slice(it, 0, it_count)
      selected_other == slice(other, 0, other_count)
      it_gap == it_count - Len(selected_it)
      other_gap == other_count - Len(selected_other)
      extra_other == IF it_gap > 0 /\ Len(other) > other_count
                     THEN slice(other, max_of(other_count, Len(other) - it_gap),
                                Len(other))
                     ELSE <<>>
      extra_it == IF other_gap > 0 /\ Len(it) > it_count
                  THEN slice(it, max_of(it_count, Len(it) - other_gap), Len(it))
                  ELSE <<>>
      all_selected == (selected_it \o extra_it) \o (selected_other \o extra_other)
  IN sort_by_score(all_selected)

select_top_domains(it, other, total_count, it_percentage) ==
  LET it_count == it_count_of(total_count, it_percentage)
      other_count == total_count - it_count
      selected_it == slice(it, 0, it_count)
      selected_other == slice(other, 0, other_count)
      it_gap == it_count - Len(selected_it)
      other_gap == other_count - Len(selected_other)
      extra_other == IF it_gap > 0 /\ Len(other) > other_count
                     THEN slice(other, other_count, other_count + it_gap)
                     ELSE <<>>
      extra_it == IF other_gap > 0 /\ Len(it) > it_count
                  THEN slice(it, it_count, it_count + other_gap)
                  ELSE <<>>
      all_selected == (selected_it \o extra_it) \o (selected_other \o extra_other)
  IN sort_by_score(all_selected)


(***************************************************************************)
(* generate_menu_navigation and generate_analysis_csv.  " | ".join is      *)
(* modelled as the entries interleaved with the separator; the brand name, *)
(* price text and comment columns are not modelled.                        *)
(***************************************************************************)
BASE_MENU == <<"Home", "About", "Contact">>

MENU_SEPARATOR == " | "

industry_specific(industry) ==
  CASE industry = "Manufacturing" -> <<"Products", "Solutions", "Industries", "Resources">>
    [] industry = "IT / Software" -> <<"Solutions", "Products", "Pricing", "Resources", "Developers">>
    [] industry = "Healthcare" -> <<"Services", "Solutions", "Resources", "Patients">>
    [] industry = "Engineering" -> <<"Services", "Projects", "Solutions", "Resources">>
    [] industry = "HR / Recruitment" -> <<"Jobs", "Employers", "Candidates", "Resources">>
    [] industry = "Analytics" -> <<"Platform", "Solutions", "Insights", "Resources">>
    [] industry = "Cybersecurity" -> <<"Solutions", "Services", "Resources", "Partners">>
    [] industry = "Wellness / Education Tech" -> <<"Courses", "Programs", "Resources", "Community">>
    [] OTHER -> <<"Products", "Services", "Resources">>

join(sep, items) ==
  [i \in 1..(IF items = <<>> THEN 0 ELSE 2 * Len(items) - 1) |->
     IF i % 2 = 1 THEN items[(i + 1) \div 2] ELSE sep]

generate_menu_navigation(industry) ==
  LET middle_items == industry_specific(industry)
      menu_items == <<BASE_MENU[1]>> \o middle_items \o Tail(BASE_MENU)
  IN join(MENU_SEPARATOR, slice(menu_items, 0, 7))

csv_row(domain_data) ==
  [domain |-> domain_data.domain,
   register_date |-> domain_data.register_date,
   industry |-> domain_data.industry,
   menu_navigation |-> generate_menu_navigation(domain_data.industry),
   age |-> domain_data.age,
   tf |-> domain_data.tf,
   cf |-> domain_data.cf,
   traffic |-> domain_data.traffic,
   combined_score |-> domain_data.combined_score]

generate_analysis_csv(domains) == [i \in 1..Len(domains) |-> csv_row(domains[i])]

(***************************************************************************)
(* The answers given to get_user_inputs, and the messages of main.         *)
(***************************************************************************)
Ratios(bits) == {<<k, 2 ^ bits>> : k \in 0..(2 ^ bits)}

Configs ==
  [domain_count : 1..MaxCount, it_percentage : Ratios(RatioBits),
   exclude_file : ExcludeFiles]

ERROR_NO_DOMAINS_LOADED == "ERROR: No domains loaded."

ERROR_NO_INDUSTRY_MATCH == "ERROR: No domains matched industry criteria."

ERROR_NO_DOMAINS_SELECTED == "ERROR: No domains selected."

WARNING_ONLY_FOUND == "Warning: Only found fewer domains than the target"

FILE_SAVED == "File saved"

NO_MATCH == [industry |-> None, score |-> 0]

(***************************************************************************)
(* main(): Init is the state after get_user_inputs returned a config.      *)
(***************************************************************************)
Init ==
  /\ pc = "load_excluded"
  /\ config \in Configs
  /\ excluded_domains = {}
  /\ rows_read = 0
  /\ all_domains = <<>>
  /\ seen_domains = {}
  /\ excluded_count = 0
  /\ it_domains = <<>>
  /\ other_domains = <<>>
  /\ selected_domains = <<>>
  /\ csv_rows = <<>>
  /\ messages = {}
  /\ domain_name = <<>>
  /\ matched = NO_MATCH
  /\ clean_load = [all_domains |-> <<>>, seen_domains |-> {}, excluded_count |-> 0]

LoadExcludedDomains ==
  /\ pc = "load_excluded"
  /\ excluded_domains' = load_excluded_domains(config.exclude_file)
  /\ pc' = "load_csv"
  /\ UNCHANGED <<config, rows_read, all_domains, seen_domains, excluded_count,
                 it_domains, other_domains, selected_domains, csv_rows,
                 messages, domain_name, matched, clean_load>>

\* one iteration of "for row in reader", over all files in turn
LoadRow ==
  /\ pc = "load_csv"
  /\ rows_read < MaxRows
  /\ \E row \in InputRows :
       LET after == process_row(row,
                      [all_domains |-> all_domains, seen_domains |-> seen_domains,
                       excluded_count |-> excluded_count],
                      excluded_domains)
       IN /\ all_domains' = after.all_domains
          /\ seen_domains' = after.seen_domains
          /\ excluded_count' = after.excluded_count
          /\ clean_load' = IF row_raises(row) THEN clean_load
                           ELSE process_row(row, clean_load, excluded_domains)
  /\ rows_read' = rows_read + 1
  /\ UNCHANGED <<pc, config, excluded_domains, it_domains, other_domains,
                 selected_domains, csv_rows, messages, domain_name, matched>>

\* the readers are exhausted: load_csv_files returns, main tests the result
LoadDone ==
  /\ pc = "load_csv"
  /\ IF all_domains = <<>>
     THEN /\ messages' = messages \cup {ERROR_NO_DOMAINS_LOADED}
          /\ pc' = "done"
     ELSE /\ messages' = messages
          /\ pc' = "filter"
  /\ UNCHANGED <<config, excluded_domains, rows_read, all_domains, seen_domains,
                 excluded_count, it_domains, other_domains, selected_domains,
                 csv_rows, domain_name, matched, clean_load>>

\* the records of all_domains are updated in place by filter_and_score_domains
updated_in_place(domain_data, scored) ==
  IF ~has_industry(domain_data) THEN domain_data
  ELSE IF \E i \in 1..Len(scored) : scored[i].domain = domain_data.domain
  THEN scored[CHOOSE i \in 1..Len(scored) : scored[i].domain = domain_data.domain]
  ELSE classify(domain_data)

FilterAndScore ==
  /\ pc = "filter"
  /\ LET buckets == filter_and_score_domains(all_domains)
     IN /\ it_domains' = buckets.it_domains
        /\ other_domains' = buckets.other_domains
        /\ all_domains' = [i \in 1..Len(all_domains) |->
                             updated_in_place(all_domains[i],
                               buckets.it_domains \o buckets.other_domains)]
        /\ IF buckets.it_domains = <<>> /\ buckets.other_domains = <<>>
           THEN /\ messages' = messages \cup {ERROR_NO_INDUSTRY_MATCH}
                /\ pc' = "done"
           ELSE /\ messages' = messages
                /\ pc' = "select"
  /\ UNCHANGED <<config, excluded_domains, rows_read, seen_domains,
                 excluded_count, selected_domains, csv_rows, domain_name, matched,
                 clean_load>>

SelectTopDomains ==
  /\ pc = "select"
  /\ LET selected == select_top_domains(it_domains, other_domains,
                       config.domain_count, config.it_percentage)
         warned == IF Len(selected) < config.domain_count
                   THEN {WARNING_ONLY_FOUND} ELSE {}
     IN /\ selected_domains' = selected
        /\ IF selected = <<>>
           THEN /\ messages' = messages \cup warned \cup {ERROR_NO_DOMAINS_SELECTED}
                /\ pc' = "done"
           ELSE /\ messages' = messages \cup warned
                /\ pc' = "csv"
  /\ UNCHANGED <<config, excluded_domains, rows_read, all_domains, seen_domains,
                 excluded_count, it_domains, other_domains, csv_rows,
                 domain_name, matched, clean_load>>

GenerateAnalysisCsv ==
  /\ pc = "csv"
  /\ csv_rows' = generate_analysis_csv(selected_domains)
  /\ messages' = messages \cup {FILE_SAVED}
  /\ pc' = "done"
  /\ UNCHANGED <<config, excluded_domains, rows_read, all_domains, seen_domains,
                 excluded_count, it_domains, other_domains, selected_domains,
                 domain_name, matched, clean_load>>

Next ==
  \/ LoadExcludedDomains
  \/ LoadRow
  \/ LoadDone
  \/ FilterAndScore
  \/ SelectTopDomains
  \/ GenerateAnalysisCsv

Spec == Init /\ [][Next]_vars


(***************************************************************************)
(* select_top_domains on its own: any two score-sorted buckets, any count  *)
(* and ratio.  A bucket record is a loaded row that went through classify  *)
(* and the scorer; its Trust Flow sets its score level.                    *)
(***************************************************************************)
DIGITS == <<"1", "2", "3", "4", "5", "6", "7", "8", "9">>

IT_STEM == <<"t", "e", "c", "h">>

OTHER_STEMS == << <<"c", "a", "r", "e">>, <<"h", "r">>, <<"e", "d", "u">>, <<"s", "e", "c", "u", "r", "e">> >>

bucket_domain(bucket, i) ==
  (IF bucket = "it" THEN IT_STEM ELSE OTHER_STEMS[((i - 1) % Len(OTHER_STEMS)) + 1])
    \o <<DIGITS[i]>>

bucket_record(bucket, i, level) ==
  with_score(
    classify([domain |-> bucket_domain(bucket, i), price |-> 0, age |-> 0,
              tf |-> 5 * level, cf |-> 0, traffic |-> 0, backlinks |-> 0,
              referring_domains |-> 0]),
    0, 0, 0)

BUCKET_POOL ==
  [bucket \in {"it", "other"} |->
     [i \in 1..MaxBucket |->
        [level \in 1..MaxScoreLevel |-> bucket_record(bucket, i, level)]]]

NonIncreasing(n) ==
  {s \in [1..n -> 1..MaxScoreLevel] : \A i \in 1..(n - 1) : s[i] >= s[i + 1]}

Buckets(bucket) ==
  UNION {{[i \in 1..n |-> BUCKET_POOL[bucket][i][s[i]]] : s \in NonIncreasing(n)}
         : n \in 0..MaxBucket}

InitSelect ==
  /\ pc = "select"
  /\ config \in [domain_count : 1..MaxSelectCount,
                 it_percentage : Ratios(SelectRatioBits),
                 exclude_file : {NO_FILE}]
  /\ it_domains \in Buckets("it")
  /\ other_domains \in Buckets("other")
  /\ all_domains = it_domains \o other_domains
  /\ seen_domains = {lower(all_domains[i].domain) : i \in 1..Len(all_domains)}
  /\ rows_read = Len(all_domains)
  /\ excluded_domains = {}
  /\ excluded_count = 0
  /\ selected_domains = <<>>
  /\ csv_rows = <<>>
  /\ messages = {}
  /\ domain_name = <<>>
  /\ matched = NO_MATCH
  /\ clean_load = [all_domains |-> all_domains, seen_domains |-> seen_domains,
                   excluded_count |-> 0]

NextSelect == SelectTopDomains

SpecSelect == InitSelect /\ [][NextSelect]_vars

(***************************************************************************)
(* match_industry on its own: names built from keywords and filler.        *)
(***************************************************************************)
NAME_PIECES ==
  { <<"t", "e", "c", "h">>,
    <<"c", "a", "r", "e">>,
    <<"h", "r">>,
    <<"e", "d", "u">>,
    <<"w", "e", "l", "l", "n", "e", "s", "s">>,
    <<"x">> }

RECURSIVE concat(_)
concat(pieces) == IF pieces = <<>> THEN <<>> ELSE Head(pieces) \o concat(Tail(pieces))

NameInputs ==
  UNION {{concat(p) : p \in [1..n -> NAME_PIECES]} : n \in 0..MaxPieces}

InitMatch ==
  /\ pc = "match"
  /\ domain_name \in NameInputs
  /\ matched = NO_MATCH
  /\ config = [domain_count |-> 1, it_percentage |-> <<0, 1>>, exclude_file |-> NO_FILE]
  /\ excluded_domains = {}
  /\ rows_read = 0
  /\ all_domains = <<>>
  /\ seen_domains = {}
  /\ excluded_count = 0
  /\ it_domains = <<>>
  /\ other_domains = <<>>
  /\ selected_domains = <<>>
  /\ csv_rows = <<>>
  /\ messages = {}
  /\ clean_load = [all_domains |-> <<>>, seen_domains |-> {}, excluded_count |-> 0]

MatchIndustry ==
  /\ pc = "match"
  /\ matched' = match_industry(domain_name)
  /\ pc' = "matched"
  /\ UNCHANGED <<config, excluded_domains, rows_read, all_domains, seen_domains,
                 excluded_count, it_domains, other_domains, selected_domains,
                 csv_rows, messages, domain_name, clean_load>>

NextMatch == MatchIndustry

SpecMatch == InitMatch /\ [][NextMatch]_vars

(***************************************************************************)
(* generate_analysis_csv on its own: records of any industry, mapped in    *)
(* the menu table or not.                                                  *)
(***************************************************************************)
MenuIndustries ==
  {INDUSTRY_KEYWORDS[i].industry : i \in 1..Len(INDUSTRY_KEYWORDS)}
    \cup {"Finance", "Real Estate"}

menu_record(industry) ==
  [BUCKET_POOL["it"][1][1] EXCEPT !.industry = industry]

MenuInputs ==
  UNION {[1..n -> {menu_record(industry) : industry \in MenuIndustries}]
         : n \in 1..MaxMenuRows}

InitMenu ==
  /\ pc = "csv"
  /\ selected_domains \in MenuInputs
  /\ csv_rows = <<>>
  /\ messages = {}
  /\ config = [domain_count |-> Len(selected_domains), it_percentage |-> <<0, 1>>,
               exclude_file |-> NO_FILE]
  /\ excluded_domains = {}
  /\ rows_read = 0
  /\ all_domains = <<>>
  /\ seen_domains = {}
  /\ excluded_count = 0
  /\ it_domains = <<>>
  /\ other_domains = <<>>
  /\ domain_name = <<>>
  /\ matched = NO_MATCH
  /\ clean_load = [all_domains |-> <<>>, seen_domains |-> {}, excluded_count |-> 0]

NextMenu == GenerateAnalysisCsv

SpecMenu == InitMenu /\ [][NextMenu]_vars


(***************************************************************************)
(* Properties.                                                             *)
(***************************************************************************)
min_of(a, b) == IF a <= b THEN a ELSE b

floor_quota(total_count, ratio) == (total_count * ratio[1]) \div ratio[2]

target_quota == floor_quota(config.domain_count, config.it_percentage)

other_quota == config.domain_count - target_quota

count_target(records) ==
  Cardinality({i \in 1..Len(records) : records[i].industry = "IT / Software"})

count_other(records) ==
  Cardinality({i \in 1..Len(records) : records[i].industry # "IT / Software"})

selection_made == pc \in {"csv", "done"} /\ (it_domains # <<>> \/ other_domains # <<>>
                                              \/ ERROR_NO_DOMAINS_SELECTED \in messages)

\* C1: select_top_domains returns exactly min(N, |targetBucket| + |otherBucket|)
\* records, and what a bucket lacks of its quota is taken from the opposite
\* bucket: the output holds min(|target|, targetQuota + other's shortfall)
\* target records and min(|other|, otherQuota + target's shortfall) others.
GapFillResultSize ==
  selection_made =>
    /\ Len(selected_domains)
         = min_of(config.domain_count, Len(it_domains) + Len(other_domains))
    /\ count_target(selected_domains)
         = min_of(Len(it_domains),
                  target_quota + max_of(0, other_quota - Len(other_domains)))
    /\ count_other(selected_domains)
         = min_of(Len(other_domains),
                  other_quota + max_of(0, target_quota - Len(it_domains)))

GapFillWitness ==
  /\ selection_made
  /\ Len(it_domains) >= 1
  /\ Len(it_domains) < target_quota
  /\ Len(other_domains) > other_quota
  /\ other_quota >= 1
  /\ Len(selected_domains) = config.domain_count
  /\ count_other(selected_domains) > other_quota

DomainUniqueness ==
  /\ \A i, j \in 1..Len(selected_domains) :
       i # j => lower(selected_domains[i].domain) # lower(selected_domains[j].domain)
  /\ \A i, j \in 1..Len(csv_rows) :
       i # j => lower(csv_rows[i].domain) # lower(csv_rows[j].domain)

DomainUniquenessWitness ==
  /\ FILE_SAVED \in messages
  /\ Len(csv_rows) >= 2
  /\ excluded_count = 0
  /\ rows_read > Cardinality(seen_domains)
  /\ \E i \in 1..Len(csv_rows) : csv_rows[i].domain = <<"T", "e", "c", "h", ".", "C", "O", "M">>

\* C4: no record of either bucket, and no output record, has TLD ".org" or a
\* normalized name containing "horizon", and each has an industry; a record
\* such as horizonhealthcare.com is classified but never reaches a bucket.
in_buckets_or_output == it_domains \o other_domains \o selected_domains

DenyList ==
  \A i \in 1..Len(in_buckets_or_output) :
    LET d == in_buckets_or_output[i]
    IN /\ d.tld # <<".", "o", "r", "g">>
       /\ ~endswith(lower(d.domain), <<".", "o", "r", "g">>)
       /\ ~contains(<<"h", "o", "r", "i", "z", "o", "n">>, d.domain_name_clean)
       /\ ~contains(<<"h", "o", "r", "i", "z", "o", "n">>, lower(d.domain))
       /\ d.industry # None

DenyListWitness ==
  /\ FILE_SAVED \in messages
  /\ \E i \in 1..Len(all_domains) :
       /\ all_domains[i].domain = <<"h", "o", "r", "i", "z", "o", "n", "h", "e", "a", "l", "t", "h", "c", "a", "r", "e", ".", "c", "o", "m">>
       /\ "industry" \in DOMAIN all_domains[i]
       /\ all_domains[i].industry = "Healthcare"
  /\ \E i \in 1..Len(all_domains) :
       /\ all_domains[i].domain = <<"w", "e", "b", ".", "o", "r", "g">>
       /\ "industry" \in DOMAIN all_domains[i]
       /\ all_domains[i].industry = "IT / Software"

\* C5: every output record has 0 <= combined_score <= 100 (scores are in
\* hundredths here), for any rows the loader accepts.
ScoreBounds ==
  \A i \in 1..Len(selected_domains) :
    /\ 0 <= selected_domains[i].combined_score
    /\ selected_domains[i].combined_score <= 10000

\* C6: the output is sorted by combined_score in non-increasing order, and of
\* two records with equal scores a target-bucket record comes before an
\* other-bucket record, and records of one bucket keep their bucket order.
position_in(bucket, record) ==
  CHOOSE k \in 1..Len(bucket) : bucket[k].domain = record.domain

keeps_presort_order(a, b) ==
  IF a.industry = "IT / Software" /\ b.industry = "IT / Software"
  THEN position_in(it_domains, a) < position_in(it_domains, b)
  ELSE IF a.industry # "IT / Software" /\ b.industry # "IT / Software"
  THEN position_in(other_domains, a) < position_in(other_domains, b)
  ELSE a.industry = "IT / Software"

OutputOrdering ==
  selection_made =>
    \A i, j \in 1..Len(selected_domains) :
      i < j =>
        /\ selected_domains[i].combined_score >= selected_domains[j].combined_score
        /\ selected_domains[i].combined_score = selected_domains[j].combined_score
             => keeps_presort_order(selected_domains[i], selected_domains[j])

OutputOrderingWitness ==
  /\ selection_made
  /\ \E i, j, k \in 1..Len(selected_domains) :
       /\ i < j /\ j < k
       /\ selected_domains[i].combined_score = selected_domains[k].combined_score
       /\ selected_domains[i].industry = "IT / Software"
       /\ selected_domains[j].industry = "IT / Software"
       /\ selected_domains[k].industry # "IT / Software"
  /\ \E i \in 1..(Len(selected_domains) - 1) :
       selected_domains[i].combined_score > selected_domains[i + 1].combined_score

\* C7: match_industry returns (none, 0) when no keyword is a substring of the
\* name; otherwise quality 1.0 if some keyword equals, starts or ends the name
\* and 0.7 if keywords occur only mid-string, with the first industry, in the
\* order IT / Software, Manufacturing, Healthcare, Engineering,
\* HR / Recruitment, Analytics, Cybersecurity, Wellness / Education Tech,
\* that has a keyword of that quality.
CLAIMED_ORDER ==
  <<"IT / Software", "Manufacturing", "Healthcare", "Engineering",
    "HR / Recruitment", "Analytics", "Cybersecurity", "Wellness / Education Tech">>

keywords_of(industry) ==
  LET i == CHOOSE k \in 1..Len(INDUSTRY_KEYWORDS) : INDUSTRY_KEYWORDS[k].industry = industry
  IN {INDUSTRY_KEYWORDS[i].keywords[j] : j \in 1..Len(INDUSTRY_KEYWORDS[i].keywords)}

occurs_in(industry, name) == \E kw \in keywords_of(industry) : contains(kw, name)

at_edge_in(industry, name) ==
  \E kw \in keywords_of(industry) :
    name = kw \/ startswith(name, kw) \/ endswith(name, kw)

first_in_claimed_order(industries) ==
  CLAIMED_ORDER[CHOOSE i \in 1..Len(CLAIMED_ORDER) :
                  /\ CLAIMED_ORDER[i] \in industries
                  /\ \A k \in 1..(i - 1) : CLAIMED_ORDER[k] \notin industries]

IndustryClassification ==
  pc = "matched" =>
    LET claimed == {CLAIMED_ORDER[i] : i \in 1..Len(CLAIMED_ORDER)}
        occurring == {industry \in claimed : occurs_in(industry, domain_name)}
        at_edge == {industry \in claimed : at_edge_in(industry, domain_name)}
    IN IF occurring = {}
       THEN matched.industry = None /\ matched.score = 0
       ELSE IF at_edge # {}
       THEN matched.score = 10 /\ matched.industry = first_in_claimed_order(at_edge)
       ELSE matched.score = 7 /\ matched.industry = first_in_claimed_order(occurring)

IndustryClassificationWitness ==
  /\ pc = "matched"
  /\ matched.score = 10
  /\ matched.industry = "Healthcare"
  /\ occurs_in("IT / Software", domain_name)
  /\ at_edge_in("Wellness / Education Tech", domain_name)

\* C8: no loaded record, and no output record, has a domain whose lowercase
\* form is in the exclusion set, whatever the casing of the input row and
\* however often the domain occurs in the input.
ExclusionRespected ==
  /\ \A i \in 1..Len(all_domains) : lower(all_domains[i].domain) \notin excluded_domains
  /\ \A i \in 1..Len(in_buckets_or_output) :
       lower(in_buckets_or_output[i].domain) \notin excluded_domains
  /\ \A i \in 1..Len(csv_rows) : lower(csv_rows[i].domain) \notin excluded_domains

ExclusionWitness ==
  /\ FILE_SAVED \in messages
  /\ <<"t", "e", "c", "h", ".", "c", "o", "m">> \in excluded_domains
  /\ excluded_count >= 2
  /\ <<"t", "e", "c", "h", ".", "c", "o", "m">> \notin seen_domains

\* C9: for every industry, mapped or not, the menu has at most 7 entries,
\* begins with "Home", has at most 4 middle items and ends with "About"
\* followed by "Contact".
menu_entries(menu) == SelectSeq(menu, LAMBDA item : item # MENU_SEPARATOR)

MenuShape ==
  \A i \in 1..Len(csv_rows) :
    LET entries == menu_entries(csv_rows[i].menu_navigation)
        n == Len(entries)
    IN /\ n <= 7
       /\ n >= 3
       /\ entries[1] = "Home"
       /\ n - 3 <= 4
       /\ entries[n - 1] = "About"
       /\ entries[n] = "Contact"

\* C10: a run with no loaded record, or with no record in a bucket, ends
\* without writing the output; a run with a record in a bucket always writes
\* a non-empty selection, a shortfall only adding a warning, and the
\* "No domains selected" abort never happens.
loading == pc \in {"load_excluded", "load_csv"}

no_output_written == csv_rows = <<>> /\ FILE_SAVED \notin messages

FatalAndNonFatalOutcomes ==
  /\ ERROR_NO_DOMAINS_SELECTED \notin messages
  /\ (~loading /\ all_domains = <<>>) =>
       pc = "done" /\ no_output_written /\ ERROR_NO_DOMAINS_LOADED \in messages
  /\ (pc \in {"select", "csv", "done"} /\ it_domains = <<>> /\ other_domains = <<>>) =>
       pc = "done" /\ no_output_written
  /\ pc = "csv" => selected_domains # <<>>
  /\ (pc = "done" /\ (it_domains # <<>> \/ other_domains # <<>>)) =>
       /\ selected_domains # <<>>
       /\ Len(csv_rows) = Len(selected_domains)
       /\ FILE_SAVED \in messages
  /\ WARNING_ONLY_FOUND \in messages =>
       Len(selected_domains) < config.domain_count

ShortfallWitness ==
  /\ pc = "done"
  /\ WARNING_ONLY_FOUND \in messages
  /\ FILE_SAVED \in messages
  /\ it_domains = <<>>
  /\ target_quota = config.domain_count
  /\ Len(csv_rows) = 1

\* C11: the records select_top_domains takes from a bucket are a prefix of
\* that score-sorted bucket: no record left in the bucket scores strictly
\* higher than a taken one, and the records taken beyond the bucket's own
\* quota are the ones right after the quota index, at most as many as the
\* opposite bucket's shortfall.
taken_from(bucket) ==
  {k \in 1..Len(bucket) :
     \E i \in 1..Len(selected_domains) : selected_domains[i] = bucket[k]}

is_top_of(bucket, quota, shortfall) ==
  LET taken == taken_from(bucket)
  IN /\ taken = 1..Cardinality(taken)
     /\ \A k \in taken : \A u \in (1..Len(bucket)) \ taken :
          bucket[u].combined_score <= bucket[k].combined_score
     /\ taken \ (1..quota) = (quota + 1)..min_of(Len(bucket), quota + shortfall)

TopOfBucketSelection ==
  selection_made =>
    /\ \A i \in 1..Len(selected_domains) :
         \/ \E k \in 1..Len(it_domains) : selected_domains[i] = it_domains[k]
         \/ \E k \in 1..Len(other_domains) : selected_domains[i] = other_domains[k]
    /\ is_top_of(it_domains, target_quota,
                 max_of(0, other_quota - Len(other_domains)))
    /\ is_top_of(other_domains, other_quota,
                 max_of(0, target_quota - Len(it_domains)))

TopOfBucketWitness ==
  /\ selection_made
  /\ other_quota >= 1
  /\ Len(it_domains) < target_quota
  /\ Cardinality(taken_from(other_domains)) > other_quota
  /\ Cardinality(taken_from(other_domains)) < Len(other_domains)
  /\ other_domains[Len(other_domains)].combined_score
       < other_domains[1].combined_score

\* C12: a row that raises leaves the load unaffected: the records loaded
\* from the rows read so far are the records loaded from those rows with
\* every raising row removed, so every domain with a well-formed,
\* non-excluded row has its record, that of the first such row.
MalformedRowLeavesLoadUnaffected ==
  pc = "load_csv" => all_domains = clean_load.all_domains

====
